---- MODULE Spec2Model ----
(***************************************************************************)
(* A model of yt_astro_analysis/halo_analysis/halo_callbacks.py: the       *)
(* callback registry and its wrapper (add_callback, HaloCallback) and the  *)
(* three callbacks halo_sphere, profile and virial_quantities, acting on   *)
(* halos of one halo catalog.                                              *)
(*                                                                         *)
(* Conventions.                                                            *)
(*   - A Python dict is a function whose DOMAIN is its set of keys.        *)
(*   - An optional value (an attribute that may not exist, an argument     *)
(*     that may be None) is a sequence of length 0 or 1.                   *)
(*   - A floating point number is a pair <<n, d>> with d >= 0: the         *)
(*     rational n/d when d > 0, an infinity when d = 0 and n # 0, and NaN  *)
(*     when n = d = 0, which is what numpy's division produces.            *)
(*   - The outcome of a call is [kind |-> "return" | "raise", val |-> s].  *)
(*   - `last` records the most recent operation: its arguments, what the   *)
(*     state was before it, and its outcome.                               *)
(***************************************************************************)
EXTENDS Integers, Sequences, FiniteSets, TLC

VARIABLES
    callback_registry,   \* operator_registry.callback_registry: name -> HaloCallback
    quantities,          \* halo -> halo.quantities (dict)
    data_object,         \* halo -> optional halo.data_object
    storage,             \* halo -> storage name -> optional profile dictionary
    catalog_quantities,  \* halo.halo_catalog.quantities: list of (name, kind)
    last,                \* the most recent operation and its outcome
    reg_log,             \* history: every add_callback(name, function) so far, in order
    requested,           \* history: every quantity name virial_quantities was asked for
    prof_log             \* history: halo -> storage name -> summary of the profile calls so far

vars == <<callback_registry, quantities, data_object, storage,
          catalog_quantities, last, reg_log, requested, prof_log>>

halo_vars == <<quantities, data_object, storage, catalog_quantities>>

----------------------------------------------------------------------------
(* Bounds of the model *)

\* Number of bins of a profile (x_bins).
NBins == 3
\* Number of add_callback calls after module load.
MaxRegs == 2
\* Number of profile calls into one storage slot of one halo, where the
\* merge of profiles is studied.
MaxProfiles == 2
\* The same, where accumulation is studied.
MaxAccum == 1
\* Number of bins of the profiles virial_quantities reads.
VBins == 4
\* Number of virial_quantities calls on the halos of a catalog, where the
\* catalog's declarations are studied.
MaxVirial == 2
\* The same, where the choice of the interpolation index is studied.
MaxExtract == 1

----------------------------------------------------------------------------
(* Values *)

Halos == {"h1", "h2"}

None == <<>>
Some(x) == <<x>>

Return(v) == [kind |-> "return", val |-> v]
Raise(e) == [kind |-> "raise", val |-> e]

EmptyDict == [k \in {} |-> 0]

\* dict.update(other): keys of other win.
DictUpdate(d, other) == other @@ d


Bins == 1..NBins

----------------------------------------------------------------------------
(* The callback registry and the wrapper: lines 30-46, 75, 166, 250 *)

\* The functions a callback may wrap: the three of this module, and two
\* user functions whose bodies are unknown.
BuiltinFunctions == {"halo_sphere", "profile", "virial_quantities"}
UserFunctions == {"f1", "f2"}

\* What a user function may do: return any value, or raise.
UserOutcomes == {Return("None"), Return("False"), Return("7"), Raise("ValueError")}

\* HaloCallback.__init__(function, args=None, kwargs=None)
HaloCallback(function, args, kwargs) ==
    [function |-> function,
     args     |-> IF args = None THEN <<>> ELSE args[1],
     kwargs   |-> IF kwargs = None THEN EmptyDict ELSE kwargs[1]]

add_callback_setdefault(registry, name, function) ==
    IF name \in DOMAIN registry
    THEN registry
    ELSE (name :> HaloCallback(function, None, None)) @@ registry

\* add_callback(name, function): callback_registry[name] = HaloCallback(function)
add_callback(registry, name, function) ==
    (name :> HaloCallback(function, None, None)) @@ registry

\* The registrations made when the module is loaded, in order.
ModuleLoad ==
    << <<"sphere", "halo_sphere">>,
       <<"profile", "profile">>,
       <<"virial_quantities", "virial_quantities">> >>

RECURSIVE RegisterAll(_, _)
RegisterAll(registry, regs) ==
    IF regs = <<>> THEN registry
    ELSE RegisterAll(add_callback(registry, regs[1][1], regs[1][2]), Tail(regs))

\* self.function(halo, *self.args, **self.kwargs): the call __call__ makes.
HaloCallback_invocation(self, halo) ==
    [function |-> self.function,
     args     |-> <<halo>> \o self.args,
     kwargs   |-> self.kwargs]

HaloCallback_call_passthrough(self, halo, function_outcome) ==
    [calls  |-> <<HaloCallback_invocation(self, halo)>>,
     result |-> function_outcome]

\* HaloCallback.__call__(halo): the calls it makes, and what the caller gets
\* once the wrapped function has ended with function_outcome.
HaloCallback_call(self, halo, function_outcome) ==
    [calls  |-> <<HaloCallback_invocation(self, halo)>>,
     result |-> IF function_outcome.kind = "raise"
                THEN function_outcome
                ELSE Return("True")]

----------------------------------------------------------------------------
(* halo_sphere: lines 48-73 *)

\* dpf.length_unit, in the units of the halo quantities.
length_unit == 2

PositionKeys ==
    <<"particle_position_x", "particle_position_y", "particle_position_z">>

\* The keys halo_sphere reads from halo.quantities, in the order it reads them.
SphereKeys(radius_field) == PositionKeys \o <<radius_field>>

FirstMissing(q, keys) ==
    LET missing == {i \in 1..Len(keys) : keys[i] \notin DOMAIN q}
    IN  IF missing = {} THEN 0
        ELSE CHOOSE i \in missing : \A j \in missing : i <= j

Sphere(q, radius_field, factor) ==
    [center |-> [i \in 1..3 |-> <<q[PositionKeys[i]], length_unit>>],
     radius |-> <<factor * q[radius_field], length_unit>>,
     units  |-> "code_length"]

halo_sphere_early_setattr(q, old_data_object, radius_field, factor) ==
    LET m == FirstMissing(q, SphereKeys(radius_field))
    IN  IF m = 0
        THEN [out |-> Return("None"),
              data_object |-> Some(Sphere(q, radius_field, factor))]
        ELSE [out |-> Raise("KeyError: " \o SphereKeys(radius_field)[m]),
              data_object |->
                  IF m = 4
                  THEN Some([center |-> [i \in 1..3 |->
                                            <<q[PositionKeys[i]], length_unit>>],
                             radius |-> <<0, length_unit>>,
                             units  |-> "code_length"])
                  ELSE old_data_object]

\* halo_sphere(halo, radius_field, factor) on a halo whose quantities are q:
\* its outcome and the halo's data_object after it.
halo_sphere(q, old_data_object, radius_field, factor) ==
    LET m == FirstMissing(q, SphereKeys(radius_field))
    IN  IF m = 0
        THEN [out |-> Return("None"),
              data_object |-> Some(Sphere(q, radius_field, factor))]
        ELSE [out |-> Raise("KeyError: " \o SphereKeys(radius_field)[m]),
              data_object |-> old_data_object]

\* Python's binding of (*args, **kwargs) to
\* halo_sphere(halo, radius_field="virial_radius", factor=1.0).
BindSphere(args, kwargs) ==
    LET params == <<"radius_field", "factor">>
        get(i, default) ==
            IF i <= Len(args) THEN args[i]
            ELSE IF params[i] \in DOMAIN kwargs THEN kwargs[params[i]]
            ELSE default
    IN  [ok |-> /\ Len(args) <= 2
                /\ DOMAIN kwargs \subseteq {"radius_field", "factor"}
                /\ \A i \in 1..Len(args) : i <= 2 => params[i] \notin DOMAIN kwargs,
         radius_field |-> get(1, "virial_radius"),
         factor |-> get(2, 1)]

\* What running call = [function, args, kwargs] may do: the set of
\* [out, data_object] it may end with, args[1] being the halo.
RunFunction(call) ==
    LET h == call.args[1]
        rest == Tail(call.args)
    IN  CASE call.function = "halo_sphere" ->
                LET b == BindSphere(rest, call.kwargs)
                IN  IF b.ok
                    THEN {halo_sphere(quantities[h], data_object[h],
                                      b.radius_field, b.factor)}
                    ELSE {[out |-> Raise("TypeError"),
                           data_object |-> data_object[h]]}
          [] call.function \in {"profile", "virial_quantities"} ->
                \* profile needs x_field and y_fields, virial_quantities needs
                \* fields: a call that gives neither is refused by Python.
                {[out |-> Raise("TypeError"), data_object |-> data_object[h]]}
          [] OTHER ->
                {[out |-> o, data_object |-> data_object[h]] : o \in UserOutcomes}

\* wrapper(halo): the wrapped function runs, the caller gets the result.
CallWrapper(op, name, w, h) ==
    \E r \in RunFunction(HaloCallback_invocation(w, h)) :
      LET c == HaloCallback_call(w, h, r.out)
      IN  /\ data_object' = [data_object EXCEPT ![h] = r.data_object]
          /\ last' = [op |-> op, name |-> name, wrapper |-> w, halo |-> h,
                      calls |-> c.calls, function_outcome |-> r.out,
                      result |-> c.result]
          /\ UNCHANGED <<callback_registry, quantities, storage,
                         catalog_quantities, reg_log, requested, prof_log>>

\* add_callback(name, function), after the module is loaded.
AddCallback(name, function) ==
    /\ Len(reg_log) < Len(ModuleLoad) + MaxRegs
    /\ callback_registry' = add_callback(callback_registry, name, function)
    /\ reg_log' = Append(reg_log, <<name, function>>)
    /\ last' = [op |-> "add_callback", name |-> name, function |-> function,
                old_registry |-> callback_registry]
    /\ UNCHANGED <<halo_vars, requested, prof_log>>

\* callback_registry[name](halo): the callback looked up by name, invoked.
InvokeRegistered(name, h) ==
    IF name \in DOMAIN callback_registry
    THEN CallWrapper("invoke", name, callback_registry[name], h)
    ELSE /\ last' = [op |-> "invoke", name |-> name, halo |-> h,
                     calls |-> <<>>, result |-> Raise("KeyError: " \o name)]
         /\ UNCHANGED <<callback_registry, halo_vars, reg_log, requested, prof_log>>

\* HaloCallback(function, args, kwargs)(halo): a wrapper with fixed arguments.
CallCallback(function, args, kwargs, h) ==
    CallWrapper("call", "", HaloCallback(function, args, kwargs), h)

\* halo_sphere(halo, radius_field, factor), called directly.
HaloSphere(h, radius_field, factor) ==
    LET r == halo_sphere(quantities[h], data_object[h], radius_field, factor)
    IN  /\ data_object' = [data_object EXCEPT ![h] = r.data_object]
        /\ last' = [op |-> "halo_sphere", halo |-> h,
                    radius_field |-> radius_field, factor |-> factor,
                    old_data_object |-> data_object[h], result |-> r.out]
        /\ UNCHANGED <<callback_registry, quantities, storage,
                       catalog_quantities, reg_log, requested, prof_log>>

----------------------------------------------------------------------------
(* profile: lines 77-164 *)

\* The indices of the bins marked used, in stored order: what array[used] selects.
UsedBins(used) == SelectSeq([i \in 1..Len(used) |-> i], LAMBDA i : used[i])

\* array[mask]
Compress(array, mask) ==
    LET ub == UsedBins(mask) IN [j \in 1..Len(ub) |-> array[ub[j]]]

\* The position of bin i among the bins marked used.
Rank(used, i) == Cardinality({j \in 1..i : used[j]})

\* np.cumsum of a sequence of integers.
RECURSIVE cumsum(_)
cumsum(a) ==
    IF a = <<>> THEN <<>>
    ELSE LET front == cumsum(SubSeq(a, 1, Len(a) - 1))
         IN  Append(front,
                    (IF front = <<>> THEN 0 ELSE front[Len(front)]) + a[Len(a)])

\* Floating point division of integers: n/0 is an infinity or NaN.
Div(n, d) ==
    IF d = 0 THEN <<(IF n > 0 THEN 1 ELSE IF n < 0 THEN -1 ELSE 0), 0>>
    ELSE IF d < 0 THEN <<-n, -d>> ELSE <<n, d>>

accumulate_plain_cumsum(values, used, weighted, weight) ==
    LET v == Compress(values, used)
    IN  [i \in 1..Len(values) |->
            IF used[i] THEN <<cumsum(v)[Rank(used, i)], 1>> ELSE <<values[i], 1>>]

\* Lines 140-150, for one field: field_data[field][used] becomes its running
\* sum, normalised by the running sum of the weights when a weight field is given.
accumulate(values, used, weighted, weight) ==
    LET v == Compress(values, used)
        w == Compress(weight, used)
        num == cumsum([j \in 1..Len(v) |-> IF weighted THEN v[j] * w[j] ELSE v[j]])
        den == cumsum(w)
    IN  [i \in 1..Len(values) |->
            IF used[i]
            THEN LET k == Rank(used, i)
                 IN  IF weighted THEN Div(num[k], den[k]) ELSE <<num[k], 1>>
            ELSE <<values[i], 1>>]

\* Lines 135-155: the dictionary profile stores, from what the profiling
\* engine produced: eng = [used, field_data, weight, x].
prof_store(eng, x_field, weight_field, accumulation) ==
    (x_field :> [i \in 1..Len(eng.x) |-> <<eng.x[i], 1>>]) @@
    [field \in DOMAIN eng.field_data |->
        IF accumulation
        THEN accumulate(eng.field_data[field], eng.used,
                        weight_field # None, eng.weight)
        ELSE [i \in 1..Len(eng.used) |-> <<eng.field_data[field][i], 1>>]]

\* halo_store["used"] &= my_profile.used
MaskAnd(a, b) == [i \in 1..Len(a) |-> a[i] /\ b[i]]

\* Lines 157-164: the storage attribute after the call. old_store is the
\* attribute before it (None when the halo has no such attribute); a
\* dictionary is [used |-> its optional "used" entry, data |-> its other entries].
halo_store(old_store, my_used, store) ==
    IF old_store # None
    THEN [used |-> IF old_store[1].used # None
                   THEN Some(MaskAnd(old_store[1].used[1], my_used))
                   ELSE None,
          data |-> DictUpdate(old_store[1].data, store)]
    ELSE [used |-> Some(my_used), data |-> store]

\* profile(halo, x_field, y_fields, weight_field=..., accumulation=...,
\* storage=...). x_bins, x_range and x_log only go to the profiling engine,
\* whose result eng is any profile over the fields asked for.
Profile(h, x_field, y_fields, weight_field, accumulation, store_name, eng) ==
    /\ DOMAIN eng.field_data = {y_fields[i] : i \in 1..Len(y_fields)}
    /\ LET out == IF "particle_identifier" \notin DOMAIN quantities[h]
                  THEN Raise("KeyError: particle_identifier")
                  ELSE IF data_object[h] = None
                  THEN Raise("AttributeError: data_object")
                  ELSE Return("None")
           store == prof_store(eng, x_field, weight_field, accumulation)
       IN  /\ IF out.kind = "return"
              THEN /\ storage' = [storage EXCEPT ![h][store_name] =
                         Some(halo_store(storage[h][store_name], eng.used, store))]
                   /\ prof_log' = [prof_log EXCEPT ![h][store_name] =
                         [n |-> @.n + 1,
                          used_all |-> IF @.n = 0 THEN Some(eng.used)
                                       ELSE Some(MaskAnd(@.used_all[1], eng.used)),
                          latest |-> DictUpdate(@.latest, store)]]
              ELSE UNCHANGED <<storage, prof_log>>
           /\ last' = [op |-> "profile", halo |-> h, storage |-> store_name,
                       x_field |-> x_field, y_fields |-> y_fields,
                       weight_field |-> weight_field,
                       accumulation |-> accumulation, eng |-> eng,
                       result |-> out]
    /\ UNCHANGED <<callback_registry, quantities, data_object,
                   catalog_quantities, reg_log, requested>>

----------------------------------------------------------------------------
(* virial_quantities: lines 168-248 *)

\* "%s_%d" % (field[0], critical_overdensity)
QName(field_name, critical_overdensity) ==
    field_name \o "_" \o ToString(critical_overdensity)

\* The value 0 the quantities start from (line 212).
Zero == [value |-> <<0, 1>>]

\* np.isfinite(x), x > 0, and the comparisons of finite values.
IsFinite(x) == x[2] # 0
IsPositive(x) == x[1] > 0
NumLt(a, b) == a[1] * b[2] < b[1] * a[2]
NumLe(a, b) == a[1] * b[2] <= b[1] * a[2]

\* sequence[i] with Python's indices: from 0, and from the end when negative.
PyGet(sequence, i) ==
    IF i < 0 THEN sequence[Len(sequence) + i + 1] ELSE sequence[i + 1]

declare_always(catalog, fields, critical_overdensity) ==
    catalog \o [i \in 1..Len(fields) |->
                   <<QName(fields[i][1], critical_overdensity), "callback">>]

\* Lines 194-197: the catalog's quantities once every field is declared.
RECURSIVE declare(_, _, _)
declare(catalog, fields, critical_overdensity) ==
    IF fields = <<>> THEN catalog
    ELSE LET q_tuple == <<QName(fields[1][1], critical_overdensity), "callback">>
         IN  declare(IF \E i \in 1..Len(catalog) : catalog[i] = q_tuple
                     THEN catalog
                     ELSE Append(catalog, q_tuple),
                     Tail(fields), critical_overdensity)

dfilter_ignoring_used(overdensity, used) ==
    [i \in 1..Len(overdensity) |->
        IsFinite(overdensity[i]) /\ IsPositive(overdensity[i])]

\* Line 210: np.isfinite(overdensity) & profile_data["used"] & (overdensity > 0)
dfilter(overdensity, used) ==
    [i \in 1..Len(overdensity) |->
        IsFinite(overdensity[i]) /\ used[i] /\ IsPositive(overdensity[i])]

\* Line 212: the quantities asked for, all zero.
vquantities(fields, critical_overdensity) ==
    [name \in {QName(fields[i][1], critical_overdensity) : i \in 1..Len(fields)}
        |-> Zero]

\* The places where vod goes from at or above the threshold to below it (line 236).
Crossings(vod, critical_overdensity) ==
    {i \in 0..(Len(vod) - 2) :
        /\ NumLe(<<critical_overdensity, 1>>, PyGet(vod, i))
        /\ NumLt(PyGet(vod, i + 1), <<critical_overdensity, 1>>)}

find_index_last_crossing(vod, critical_overdensity) ==
    LET co == <<critical_overdensity, 1>>
        hits == Crossings(vod, critical_overdensity)
    IN  IF \A i \in 1..Len(vod) : NumLt(co, vod[i])
        THEN IF NumLt(PyGet(vod, -1), PyGet(vod, -2))
             THEN [kind |-> "index", index |-> -2]
             ELSE [kind |-> "zero", index |-> 0]
        ELSE IF \A i \in 1..Len(vod) : NumLt(vod[i], co)
        THEN IF NumLt(PyGet(vod, 1), PyGet(vod, 0))
             THEN [kind |-> "index", index |-> 0]
             ELSE [kind |-> "zero", index |-> 0]
        ELSE IF hits = {}
             THEN [kind |-> "IndexError", index |-> 0]
             ELSE [kind |-> "index",
                   index |-> CHOOSE i \in hits : \A j \in hits : j <= i]

\* Lines 219-237: the interpolation index ("index"), or no crossing ("zero"),
\* or the failure of np.where(...)[0][0] on an empty result ("IndexError").
find_index(vod, critical_overdensity) ==
    LET co == <<critical_overdensity, 1>>
        hits == Crossings(vod, critical_overdensity)
    IN  IF \A i \in 1..Len(vod) : NumLt(co, vod[i])
        THEN IF NumLt(PyGet(vod, -1), PyGet(vod, -2))
             THEN [kind |-> "index", index |-> -2]
             ELSE [kind |-> "zero", index |-> 0]
        ELSE IF \A i \in 1..Len(vod) : NumLt(vod[i], co)
        THEN IF NumLt(PyGet(vod, 1), PyGet(vod, 0))
             THEN [kind |-> "index", index |-> 0]
             ELSE [kind |-> "zero", index |-> 0]
        ELSE IF hits = {}
             THEN [kind |-> "IndexError", index |-> 0]
             ELSE [kind |-> "index",
                   index |-> CHOOSE i \in hits : \A j \in hits : i <= j]

\* The units the dataset can convert a profile's values to (value.in_units).
ConvertibleUnits == {"K", "keV"}

\* Lines 239-246, for one field: the power law through the samples at index
\* and index + 1, evaluated at the threshold, in the units asked for.
Interpolate(vod, v_prof, index, critical_overdensity, units) ==
    [interp |-> [vod0 |-> PyGet(vod, index), vod1 |-> PyGet(vod, index + 1),
                 v0 |-> PyGet(v_prof, index), v1 |-> PyGet(v_prof, index + 1)],
     at     |-> critical_overdensity,
     units  |-> units]

\* The first field of the loop at line 239 that fails, and how; 0 when none does.
FirstFailure(profile_data, fields) ==
    LET bad == {i \in 1..Len(fields) :
                   \/ fields[i][1] \notin DOMAIN profile_data.data
                   \/ fields[i][2] \notin ConvertibleUnits}
    IN  IF bad = {} THEN 0 ELSE CHOOSE i \in bad : \A j \in bad : i <= j

abort_after_zeroing(q, fields, critical_overdensity, error) ==
    [out |-> Raise(error),
     quantities |-> DictUpdate(q, vquantities(fields, critical_overdensity)),
     index |-> None, vod |-> <<>>]

\* Lines 204-210: an error raised before the profile is looked at leaves
\* halo.quantities as it was.
abort(q, fields, critical_overdensity, error) ==
    [out |-> Raise(error), quantities |-> q, index |-> None, vod |-> <<>>]

\* Lines 199-248, once the fields are declared: the outcome, the halo's
\* quantities after the call, and the index chosen if one was.
extract(q, profile_store, fields, critical_overdensity) ==
    IF profile_store = None
    THEN abort(q, fields, critical_overdensity, "AttributeError")
    ELSE
        LET profile_data == profile_store[1]
        IN  IF "overdensity" \notin DOMAIN profile_data.data
            THEN abort(q, fields, critical_overdensity, "RuntimeError")
            ELSE IF profile_data.used = None
            THEN abort(q, fields, critical_overdensity, "KeyError: used")
            ELSE
            LET overdensity == profile_data.data["overdensity"]
                df == dfilter(overdensity, profile_data.used[1])
                zeros == vquantities(fields, critical_overdensity)
                vod == Compress(overdensity, df)
            IN  IF Len(vod) < 2
                THEN [out |-> Return("None"), quantities |-> DictUpdate(q, zeros),
                      index |-> None, vod |-> vod]
                ELSE
                LET found == find_index(vod, critical_overdensity)
                    fail == FirstFailure(profile_data, fields)
                IN  CASE found.kind = "zero" ->
                            [out |-> Return("None"),
                             quantities |-> DictUpdate(q, zeros),
                             index |-> None, vod |-> vod]
                      [] found.kind = "IndexError" ->
                            [out |-> Raise("IndexError"), quantities |-> q,
                             index |-> None, vod |-> vod]
                      [] OTHER ->
                            IF fail # 0
                            THEN [out |-> Raise(
                                     IF fields[fail][1] \notin DOMAIN profile_data.data
                                     THEN "KeyError: " \o fields[fail][1]
                                     ELSE "YTUnitConversionError"),
                                  quantities |-> q,
                                  index |-> Some(found.index), vod |-> vod]
                            ELSE [out |-> Return("None"),
                                  quantities |-> DictUpdate(q,
                                     [name \in DOMAIN zeros |->
                                        LET i == CHOOSE j \in 1..Len(fields) :
                                                   /\ QName(fields[j][1],
                                                        critical_overdensity) = name
                                                   /\ \A k \in (j+1)..Len(fields) :
                                                        QName(fields[k][1],
                                                          critical_overdensity) # name
                                        IN  Interpolate(vod,
                                              Compress(profile_data.data[fields[i][1]], df),
                                              found.index, critical_overdensity,
                                              fields[i][2])]),
                                  index |-> Some(found.index), vod |-> vod]

\* virial_quantities(halo, fields, critical_overdensity, profile_storage) on a
\* halo with quantities q and storage attribute profile_store, of a catalog
\* whose quantities are catalog: the outcome and the three after the call.
virial_quantities(q, catalog, profile_store, fields, critical_overdensity) ==
    IF "particle_identifier" \notin DOMAIN q
    THEN [out |-> Raise("KeyError: particle_identifier"), quantities |-> q,
          catalog |-> catalog, index |-> None, vod |-> <<>>]
    ELSE LET r == extract(q, profile_store, fields, critical_overdensity)
         IN  [out |-> r.out, quantities |-> r.quantities,
              catalog |-> declare(catalog, fields, critical_overdensity),
              index |-> r.index, vod |-> r.vod]

VirialQuantities(h, fields, critical_overdensity, store_name) ==
    LET r == virial_quantities(quantities[h], catalog_quantities,
                               storage[h][store_name], fields,
                               critical_overdensity)
    IN  /\ quantities' = [quantities EXCEPT ![h] = r.quantities]
        /\ catalog_quantities' = r.catalog
        /\ requested' = requested \cup
              {QName(fields[i][1], critical_overdensity) : i \in 1..Len(fields)}
        /\ last' = [op |-> "virial_quantities", halo |-> h, fields |-> fields,
                    critical_overdensity |-> critical_overdensity,
                    storage |-> store_name,
                    old_quantities |-> quantities[h],
                    old_catalog |-> catalog_quantities,
                    index |-> r.index, vod |-> r.vod,
                    n |-> IF last.op = "virial_quantities" THEN last.n + 1 ELSE 1,
                    result |-> r.out]
        /\ UNCHANGED <<callback_registry, data_object, storage, reg_log, prof_log>>

----------------------------------------------------------------------------
(* Initial states *)

StorageNames == {"profiles"}

\* Every halo carries its identifier (line 113, line 190); the catalog
\* driver fills in the rest.
BaseQuantities ==
    [particle_identifier |-> 1,
     particle_position_x |-> 1,
     particle_position_y |-> 1,
     particle_position_z |-> 1,
     virial_radius       |-> 4]

\* The dicts that agree with d on a subset of its keys and hold at least `keep`.
SubDicts(d, keep) ==
    {[k \in ks |-> d[k]] : ks \in {x \in SUBSET DOMAIN d : keep \subseteq x}}

InitRegistry ==
    /\ callback_registry = RegisterAll(EmptyDict, ModuleLoad)
    /\ reg_log = ModuleLoad

InitHistory ==
    /\ last = [op |-> "init"]
    /\ requested = {}
    /\ prof_log = [h \in Halos |-> [s \in StorageNames |->
                        [n |-> 0, used_all |-> None, latest |-> EmptyDict]]]

\* The state once the module is loaded and the catalog's halos exist, before
\* any callback has run on them.
Init ==
    /\ InitRegistry
    /\ InitHistory
    /\ quantities \in [Halos -> SubDicts(BaseQuantities, {"particle_identifier"})]
    /\ data_object = [h \in Halos |-> None]
    /\ storage = [h \in Halos |-> [s \in StorageNames |-> None]]
    /\ catalog_quantities = <<>>

----------------------------------------------------------------------------
(* The registry and the wrapper on their own *)

RegNames == {"sphere", "my_callback"}
RegFunctions == {"halo_sphere", "f1", "f2"}
FixedArgs == {None, Some(<<"r200">>)}
FixedKwargs == {None, Some([factor |-> 2])}

InitReg ==
    /\ InitRegistry
    /\ InitHistory
    /\ quantities \in
         [Halos -> {BaseQuantities,
                    [k \in DOMAIN BaseQuantities \ {"virial_radius"}
                        |-> BaseQuantities[k]]}]
    /\ data_object = [h \in Halos |-> None]
    /\ storage = [h \in Halos |-> [s \in StorageNames |-> None]]
    /\ catalog_quantities = <<>>

AddCallbackStep ==
    \E name \in RegNames, function \in RegFunctions : AddCallback(name, function)

InvokeRegisteredStep ==
    \E name \in RegNames \cup {"profile", "unknown"} : InvokeRegistered(name, "h1")

CallCallbackStep ==
    \E function \in RegFunctions \cup {"virial_quantities"},
       args \in FixedArgs, kwargs \in FixedKwargs :
        CallCallback(function, args, kwargs, "h1")

NextReg == AddCallbackStep \/ InvokeRegisteredStep \/ CallCallbackStep

SpecReg == InitReg /\ [][NextReg]_vars

\* The function of the most recent add_callback(name, ...).
Registrations(name) == {i \in 1..Len(reg_log) : reg_log[i][1] = name}

LatestRegistration(name) ==
    LET idx == Registrations(name)
    IN  reg_log[CHOOSE i \in idx : \A j \in idx : j <= i][2]

\* C4: registration is last-writer-wins by name. The registry holds exactly
\* the names registered so far; each maps to a wrapper, with no fixed
\* arguments, around the function of the most recent registration under that
\* name; invoking the callback looked up by a name runs that function and no
\* other; and a registration leaves the entries under other names as they were.
C4_LastWriterWins ==
    /\ DOMAIN callback_registry = {reg_log[i][1] : i \in 1..Len(reg_log)}
    /\ \A name \in DOMAIN callback_registry :
          /\ callback_registry[name].function = LatestRegistration(name)
          /\ callback_registry[name].args = <<>>
          /\ callback_registry[name].kwargs = EmptyDict
    /\ (last.op = "invoke" /\ last.name \in DOMAIN callback_registry) =>
          /\ Len(last.calls) = 1
          /\ last.calls[1].function = LatestRegistration(last.name)
    /\ last.op = "add_callback" =>
          \A name \in DOMAIN last.old_registry \ {last.name} :
             /\ name \in DOMAIN callback_registry
             /\ callback_registry[name] = last.old_registry[name]

\* A name registered three times (once at load), then invoked: the newest runs.
C4_Witness ==
    /\ last.op = "invoke"
    /\ last.name = "sphere"
    /\ Cardinality(Registrations("sphere")) = 3
    /\ \E i, j \in Registrations("sphere") : i < j /\ reg_log[i][2] # reg_log[j][2]
    /\ last.calls[1].function = "f2"

\* C9: invoking a wrapper runs the wrapped function exactly once, on the halo
\* followed by the wrapper's fixed positional and keyword arguments; the
\* caller gets True whenever the function returns, whatever it returns, and
\* gets the function's own error when it raises.
C9_WrapperCall ==
    (last.op \in {"call", "invoke"} /\ "wrapper" \in DOMAIN last) =>
        /\ last.calls = << [function |-> last.wrapper.function,
                            args     |-> <<last.halo>> \o last.wrapper.args,
                            kwargs   |-> last.wrapper.kwargs] >>
        /\ last.function_outcome.kind = "return" => last.result = Return("True")
        /\ last.function_outcome.kind = "raise" =>
              last.result = last.function_outcome

\* A wrapper with fixed arguments around a function that returns False.
C9_Witness ==
    /\ last.op = "call"
    /\ last.wrapper.args = <<"r200">>
    /\ last.wrapper.kwargs = [factor |-> 2]
    /\ last.function_outcome = Return("False")
    /\ last.result = Return("True")

----------------------------------------------------------------------------
(* halo_sphere on its own *)

SphereQuantities == BaseQuantities @@ [r200 |-> 6]

InitSphere ==
    /\ InitRegistry
    /\ InitHistory
    /\ quantities \in
         [Halos -> SubDicts(SphereQuantities, {"particle_identifier"})]
    /\ quantities["h2"] = SphereQuantities
    /\ data_object = [h \in Halos |-> None]
    /\ storage = [h \in Halos |-> [s \in StorageNames |-> None]]
    /\ catalog_quantities = <<>>

HaloSphereStep ==
    \E h \in Halos, radius_field \in {"virial_radius", "r200"}, factor \in {1, 2} :
        HaloSphere(h, radius_field, factor)

NextSphere == HaloSphereStep

SpecSphere == InitSphere /\ [][NextSphere]_vars

SphereKeyMissing(h, radius_field) ==
    \E k \in {"particle_position_x", "particle_position_y",
              "particle_position_z", radius_field} : k \notin DOMAIN quantities[h]

\* C5: halo_sphere on a halo whose quantities lack a position key or the
\* radius key raises, and the halo's data_object is what it was before the
\* call: a halo that had none has none.
C5_SphereMissingKey ==
    (last.op = "halo_sphere" /\ SphereKeyMissing(last.halo, last.radius_field)) =>
        /\ last.result.kind = "raise"
        /\ data_object[last.halo] = last.old_data_object
        /\ last.old_data_object = None => data_object[last.halo] = None

\* The radius key alone is missing, on a halo that has no data_object.
C5_Witness ==
    /\ last.op = "halo_sphere"
    /\ last.radius_field = "r200"
    /\ DOMAIN quantities[last.halo] = DOMAIN SphereQuantities \ {"r200"}
    /\ last.old_data_object = None
    /\ last.result = Raise("KeyError: r200")

----------------------------------------------------------------------------
(* profile on its own *)

Masks == [Bins -> BOOLEAN]

\* Bin centres.
XBins == [i \in Bins |-> i]

\* What the profiling engine may produce for the fields asked for: on the
\* bins it used, per-bin values from `values` and a weight from `weights`;
\* on the others, value 0 and weight 0.
Engine(fields, values, weights) ==
    UNION {{[used |-> u, field_data |-> fd, weight |-> w, x |-> XBins] :
               fd \in {f \in [fields -> [Bins -> values \cup {0}]] :
                          \A y \in fields, i \in Bins : u[i] <=> f[y][i] # 0},
               w \in {ww \in [Bins -> weights \cup {0}] :
                         \A i \in Bins : u[i] <=> ww[i] # 0}} :
           u \in Masks}

\* A halo once halo_sphere has attached its region.
TheSphere == Some(Sphere(BaseQuantities, "virial_radius", 1))

InitAccum ==
    /\ InitRegistry
    /\ InitHistory
    /\ quantities = [h \in Halos |-> BaseQuantities]
    /\ data_object = [h \in Halos |-> IF h = "h1" THEN TheSphere ELSE None]
    /\ storage = [h \in Halos |-> [s \in StorageNames |-> None]]
    /\ catalog_quantities = <<>>

ProfileAccumStep ==
    \E h \in {"h1"}, weight_field \in {Some("cell_mass")},
       accumulation \in {TRUE},
       eng \in Engine({"temperature"}, {1, 2}, {1, 2}) :
        /\ prof_log[h]["profiles"].n < MaxAccum
        /\ Profile(h, "radius", <<"temperature">>, weight_field, accumulation,
                "profiles", eng)

NextAccum == ProfileAccumStep

SpecAccum == InitAccum /\ [][NextAccum]_vars

\* Equality of floating point values.
NumEq(a, b) ==
    IF a[2] # 0 /\ b[2] # 0 THEN a[1] * b[2] = b[1] * a[2] ELSE a = b

RECURSIVE SumOver(_, _)
SumOver(S, f) ==
    IF S = {} THEN 0
    ELSE LET i == CHOOSE j \in S : TRUE IN f[i] + SumOver(S \ {i}, f)

\* C8: with accumulation and a weight field, the value profile stores for a
\* field at a used bin k is sum(v_i*w_i)/sum(w_i) over the used bins i up to
\* k, v being the engine's per-bin values and w its weights; the value at a
\* bin not marked used is the engine's.
C8_WeightedAccumulation ==
    (/\ last.op = "profile"
     /\ last.result.kind = "return"
     /\ last.accumulation
     /\ last.weight_field # None) =>
        \A field \in DOMAIN last.eng.field_data :
            LET v == last.eng.field_data[field]
                w == last.eng.weight
                stored == storage[last.halo][last.storage][1].data[field]
                upto(k) == {i \in 1..k : last.eng.used[i]}
            IN  \A k \in Bins :
                    IF last.eng.used[k]
                    THEN /\ stored[k][2] # 0
                         /\ NumEq(stored[k],
                                  <<SumOver(upto(k), [i \in Bins |-> v[i] * w[i]]),
                                    SumOver(upto(k), w)>>)
                    ELSE stored[k] = <<v[k], 1>>

\* Used bins 1 and 3 with different values and weights, bin 2 skipped:
\* the third bin holds (1*1 + 2*2)/(1 + 2).
C8_Witness ==
    /\ last.op = "profile"
    /\ last.result.kind = "return"
    /\ last.accumulation
    /\ last.weight_field = Some("cell_mass")
    /\ NBins >= 3
    /\ last.eng.used[1] /\ ~last.eng.used[2] /\ last.eng.used[3]
    /\ last.eng.field_data["temperature"][1] = 1
    /\ last.eng.field_data["temperature"][2] = 0
    /\ last.eng.field_data["temperature"][3] = 2
    /\ last.eng.weight[1] = 1 /\ last.eng.weight[3] = 2
    /\ storage[last.halo]["profiles"][1].data["temperature"][3] = <<5, 3>>
    /\ storage[last.halo]["profiles"][1].data["temperature"][2] = <<0, 1>>

----------------------------------------------------------------------------
(* The merge of profiles in one storage slot *)

\* Engine results whose values and weights are the same on every used bin.
UniformEngine(fields) ==
    {e \in Engine(fields, {1, 2}, {1}) :
        \A y \in fields, z \in fields, i \in Bins, j \in Bins :
            (e.used[i] /\ e.used[j]) => e.field_data[y][i] = e.field_data[z][j]}

\* hasattr(halo, storage) holds of any attribute the halo has: one the
\* catalog driver or another callback put there is a dictionary with no
\* "used" entry, since profile is the only writer of "used".
InitMerge ==
    /\ InitRegistry
    /\ InitHistory
    /\ quantities = [h \in Halos |-> BaseQuantities]
    /\ data_object \in [Halos -> {TheSphere, None}]
    /\ data_object["h2"] = None
    /\ storage \in [Halos -> [StorageNames ->
                       {None, Some([used |-> None, data |-> EmptyDict])}]]
    /\ storage["h2"] = [s \in StorageNames |-> None]
    /\ catalog_quantities = <<>>

ProfileMergeStep ==
    \E h \in {"h1"}, weight_field \in {None, Some("cell_mass")},
       accumulation \in BOOLEAN,
       y_fields \in {<<"overdensity">>, <<"temperature">>,
                     <<"overdensity", "temperature">>} :
       \E eng \in UniformEngine({y_fields[i] : i \in 1..Len(y_fields)}) :
        /\ prof_log[h]["profiles"].n < MaxProfiles
        /\ Profile(h, "radius", y_fields, weight_field, accumulation,
                   "profiles", eng)

NextMerge == ProfileMergeStep

SpecMerge == InitMerge /\ [][NextMerge]_vars

\* C3: after two or more profile calls into one storage slot of a halo, the
\* slot holds an array for every field any of the calls produced, that of
\* the latest call producing it, and a "used" mask that is the bin-wise AND
\* of the masks of all the calls, whatever the slot was before the calls.
C3_MergeUnionAndUsed ==
    \A h \in Halos, s \in StorageNames :
        prof_log[h][s].n >= 2 =>
            /\ storage[h][s] # None
            /\ \A field \in DOMAIN prof_log[h][s].latest :
                  /\ field \in DOMAIN storage[h][s][1].data
                  /\ storage[h][s][1].data[field] = prof_log[h][s].latest[field]
            /\ storage[h][s][1].used = prof_log[h][s].used_all

----------------------------------------------------------------------------
(* virial_quantities on every stored profile *)

Thresholds == {3}

\* Overdensities around the threshold: two below it, the threshold, two
\* above it, zero and an infinity.
ODValues == {<<1, 0>>, <<0, 1>>, <<1, 1>>, <<2, 1>>, <<3, 1>>, <<4, 1>>, <<5, 1>>}

AllUsed == [i \in 1..VBins |-> TRUE]

\* The profile of a field other than the overdensity: bin i holds 10*i.
FieldProfile == [i \in 1..VBins |-> <<10 * i, 1>>]

OtherData == [radius |-> [i \in 1..VBins |-> <<i, 1>>], temperature |-> FieldProfile]

\* The storage attributes profile may have left on a halo: any overdensity
\* with every bin used; overdensities at, above and below the threshold
\* with any "used" mask, or with none; NaN among the overdensities; and
\* a profile of other fields only.
VirialStores ==
    {None, Some([used |-> Some(AllUsed), data |-> OtherData])}
    \cup {Some([used |-> Some(AllUsed), data |-> [overdensity |-> od] @@ OtherData]) :
            od \in [1..VBins -> ODValues]}
    \cup {Some([used |-> u, data |-> [overdensity |-> od] @@ OtherData]) :
            od \in [1..VBins -> {<<2, 1>>, <<3, 1>>, <<4, 1>>}],
            u \in {None} \cup {Some(m) : m \in [1..VBins -> BOOLEAN]}}
    \cup {Some([used |-> Some(AllUsed), data |-> [overdensity |-> od] @@ OtherData]) :
            od \in [1..VBins -> {<<0, 0>>, <<2, 1>>, <<4, 1>>}]}

InitVirial ==
    /\ InitRegistry
    /\ InitHistory
    /\ quantities = [h \in Halos |-> BaseQuantities]
    /\ data_object = [h \in Halos |-> TheSphere]
    /\ \E store \in VirialStores :
          storage = [h \in Halos |-> [s \in StorageNames |->
                        IF h = "h1" THEN store ELSE None]]
    /\ catalog_quantities = <<>>

ExtractStep ==
    \E fields \in {<< <<"temperature", "K">> >>,
                   << <<"temperature", "K">>, <<"pressure", "K">> >>,
                   << <<"temperature", "g">> >>},
       critical_overdensity \in Thresholds :
        /\ last.op = "virial_quantities" => last.n < MaxExtract
        /\ VirialQuantities("h1", fields, critical_overdensity, "profiles")

NextVirial == ExtractStep

SpecVirial == InitVirial /\ [][NextVirial]_vars

\* The profile the last virial_quantities call read, when it holds an
\* overdensity and a "used" mask.
LastStore == storage[last.halo][last.storage]

HasOverdensity ==
    /\ LastStore # None
    /\ "overdensity" \in DOMAIN LastStore[1].data
    /\ LastStore[1].used # None

\* The valid bins, in stored order: finite, marked used, strictly positive.
ValidBins ==
    LET od == LastStore[1].data["overdensity"]
        used == LastStore[1].used[1]
    IN  SelectSeq([i \in 1..Len(od) |-> i],
                  LAMBDA i : od[i][2] # 0 /\ used[i] /\ od[i][1] > 0)

\* The index the selection rule determines in the sequence vod of rationals
\* n/d, counting from 0, as a set: empty when the rule determines none.
RuleIndex(vod, threshold) ==
    LET n == Len(vod)
        above(k) == vod[k + 1][1] > threshold * vod[k + 1][2]
        below(k) == vod[k + 1][1] < threshold * vod[k + 1][2]
        less(j, k) == vod[j + 1][1] * vod[k + 1][2] < vod[k + 1][1] * vod[j + 1][2]
        down == {i \in 0..(n - 2) : ~below(i) /\ below(i + 1)}
    IN  IF (\A k \in 0..(n - 1) : above(k)) /\ less(n - 1, n - 2) THEN {n - 2}
        ELSE IF (\A k \in 0..(n - 1) : below(k)) /\ less(1, 0) THEN {0}
        ELSE IF down = {} THEN {}
        ELSE {CHOOSE i \in down : \A j \in down : i <= j}

\* The index the rule determines for the profile the last call read.
LastRuleIndex ==
    LET vb == ValidBins
    IN  RuleIndex([k \in 1..Len(vb) |-> LastStore[1].data["overdensity"][vb[k]]],
                  last.critical_overdensity)

AllRequestedZero ==
    \A i \in 1..Len(last.fields) :
        LET name == QName(last.fields[i][1], last.critical_overdensity)
        IN  /\ name \in DOMAIN quantities[last.halo]
            /\ quantities[last.halo][name] = Zero

\* C1: with an overdensity profile of at least 2 valid bins in which the
\* selection rule determines no index, virial_quantities returns normally and
\* writes zero for every requested field.
C1_NoCrossingIsZero ==
    (/\ last.op = "virial_quantities"
     /\ HasOverdensity
     /\ Len(ValidBins) >= 2
     /\ LastRuleIndex = {}) =>
        /\ last.result = Return("None")
        /\ AllRequestedZero

\* C6: with fewer than 2 valid bins, virial_quantities returns normally and
\* writes zero for every requested field, whatever the "used" mask and the
\* overdensities are.
C6_FewValidBinsIsZero ==
    (/\ last.op = "virial_quantities"
     /\ HasOverdensity
     /\ Len(ValidBins) < 2) =>
        /\ last.result = Return("None")
        /\ AllRequestedZero

\* Two bins with finite positive overdensity, only one of them marked used.
C6_Witness ==
    /\ last.op = "virial_quantities"
    /\ HasOverdensity
    /\ Len(ValidBins) = 1
    /\ Cardinality({i \in 1..VBins :
                      /\ LastStore[1].data["overdensity"][i] = <<4, 1>>
                      /\ ~LastStore[1].used[1][i]}) >= 1
    /\ Len(last.fields) = 2
    /\ AllRequestedZero

\* The place in a sequence of n elements that Python's index i names.
Resolve(i, n) == IF i < 0 THEN n + i ELSE i

\* C7: over at least 2 valid bins, the index virial_quantities chooses is the
\* one the selection rule determines, it chooses one whenever the rule
\* determines one, index and index + 1 are adjacent places of the valid-bin
\* sequence, and the interpolation reads the samples at those two places.
C7_IndexSelection ==
    (last.op = "virial_quantities" /\ HasOverdensity) =>
        LET vb == ValidBins
            n == Len(vb)
            od == LastStore[1].data["overdensity"]
            rule == RuleIndex([k \in 1..n |-> od[vb[k]]], last.critical_overdensity)
        IN  n >= 2 =>
            /\ rule # {} => last.index # None
            /\ last.index # None =>
                  LET i == Resolve(last.index[1], n)
                  IN  /\ rule = {i}
                      /\ i \in 0..(n - 2)
                      /\ Resolve(last.index[1] + 1, n) = i + 1
                      /\ last.result = Return("None") =>
                            \A f \in 1..Len(last.fields) :
                               LET x == quantities[last.halo][
                                           QName(last.fields[f][1],
                                                 last.critical_overdensity)].interp
                                   prof == LastStore[1].data[last.fields[f][1]]
                               IN  /\ x.vod0 = od[vb[i + 1]]
                                   /\ x.vod1 = od[vb[i + 2]]
                                   /\ x.v0 = prof[vb[i + 1]]
                                   /\ x.v1 = prof[vb[i + 2]]

\* Two downward crossings (4, 2, 4, 2): the first is chosen.
C7_Witness ==
    /\ last.op = "virial_quantities"
    /\ HasOverdensity
    /\ LastStore[1].used[1] = AllUsed
    /\ LastStore[1].data["overdensity"] =
          [i \in 1..VBins |-> IF i % 2 = 1 THEN <<4, 1>> ELSE <<2, 1>>]
    /\ last.index = Some(0)
    /\ last.result = Return("None")
    /\ quantities[last.halo]["temperature_3"].interp =
          [vod0 |-> <<4, 1>>, vod1 |-> <<2, 1>>, v0 |-> <<10, 1>>, v1 |-> <<20, 1>>]

----------------------------------------------------------------------------
(* virial_quantities and the catalog's declared quantities *)

\* Overdensity profiles: one falling through the thresholds, one rising
\* through them, one of zeros.
Falling == [i \in 1..VBins |-> <<2 * (VBins - i) + 1, 1>>]
Rising == [i \in 1..VBins |-> <<i, 1>>]
Zeros == [i \in 1..VBins |-> <<0, 1>>]

DeclareStores ==
    {None, Some([used |-> Some(AllUsed), data |-> OtherData])}
    \cup {Some([used |-> Some(AllUsed), data |-> [overdensity |-> od] @@ OtherData]) :
            od \in {Falling, Rising, Zeros}}

InitDeclare ==
    /\ InitRegistry
    /\ InitHistory
    /\ quantities = [h \in Halos |-> BaseQuantities]
    /\ data_object = [h \in Halos |-> TheSphere]
    /\ storage \in [Halos -> [StorageNames -> DeclareStores]]
    /\ catalog_quantities \in {<<>>, << <<"particle_mass", "field">> >>}

DeclareStep ==
    \E h \in Halos,
       fields \in {<< <<"temperature", "K">> >>,
                   << <<"pressure", "K">> >>,
                   << <<"temperature", "K">>, <<"pressure", "K">> >>,
                   << <<"temperature", "K">>, <<"temperature", "keV">> >>},
       critical_overdensity \in {2, 3} :
        /\ last.op = "virial_quantities" => last.n < MaxVirial
        /\ VirialQuantities(h, fields, critical_overdensity, "profiles")

NextDeclare == DeclareStep

SpecDeclare == InitDeclare /\ [][NextDeclare]_vars

Count(sequence, x) == Cardinality({i \in 1..Len(sequence) : sequence[i] = x})

IsPrefix(a, b) == Len(a) <= Len(b) /\ SubSeq(b, 1, Len(a)) = a

\* C10: after any virial_quantities calls on the halos of a catalog, however
\* they ended, the catalog's quantities hold the pair (name, "callback")
\* exactly once for every quantity ever requested and no pair twice, and a
\* call keeps the entries that were there, in their order.
C10_DeclaredOnce ==
    /\ \A name \in requested : Count(catalog_quantities, <<name, "callback">>) = 1
    /\ \A i, j \in 1..Len(catalog_quantities) :
          catalog_quantities[i] = catalog_quantities[j] => i = j
    /\ last.op = "virial_quantities" => IsPrefix(last.old_catalog, catalog_quantities)

\* The same quantity requested by two calls on different halos, one of which
\* ended in an error, in a catalog that had an entry before.
C10_Witness ==
    /\ last.op = "virial_quantities"
    /\ last.n = 2
    /\ last.halo = "h2"
    /\ last.result.kind = "raise"
    /\ requested = {"temperature_3", "pressure_3"}
    /\ last.old_catalog = << <<"particle_mass", "field">>,
                             <<"temperature_3", "callback">> >>
    /\ catalog_quantities = << <<"particle_mass", "field">>,
                               <<"temperature_3", "callback">>,
                               <<"pressure_3", "callback">> >>

NoOverdensity ==
    \/ LastStore = None
    \/ "overdensity" \notin DOMAIN LastStore[1].data

\* The pairs a call declares: those of the requested fields that old_catalog
\* lacks, each once, in the order requested.
NewlyDeclared ==
    LET pair(i) == <<QName(last.fields[i][1], last.critical_overdensity), "callback">>
        new == {i \in 1..Len(last.fields) :
                   /\ Count(last.old_catalog, pair(i)) = 0
                   /\ \A j \in 1..(i - 1) : pair(j) # pair(i)}
        order == SelectSeq([i \in 1..Len(last.fields) |-> i], LAMBDA i : i \in new)
    IN  [k \in 1..Len(order) |-> pair(order[k])]

\* C2 as the claim states it: with no overdensity profile in the storage
\* slot, virial_quantities raises, and the halo's quantities and the
\* catalog's declared quantities are both as they were before the call.
C2_NothingWritten ==
    (last.op = "virial_quantities" /\ NoOverdensity) =>
        /\ last.result.kind = "raise"
        /\ quantities[last.halo] = last.old_quantities
        /\ catalog_quantities = last.old_catalog

\* C2, amended: with no overdensity profile in the storage slot,
\* virial_quantities raises (RuntimeError when the slot exists) and the
\* halo's quantities are as they were before the call; the catalog's
\* declared quantities are those before the call followed by the pair of
\* every requested field that was not declared yet.
C2_QuantitiesUntouched ==
    (last.op = "virial_quantities" /\ NoOverdensity) =>
        /\ last.result.kind = "raise"
        /\ LastStore # None => last.result = Raise("RuntimeError")
        /\ quantities[last.halo] = last.old_quantities
        /\ catalog_quantities = last.old_catalog \o NewlyDeclared

\* A slot without overdensity, a request for two fields of which one is
\* declared already: RuntimeError, and the other is declared.
C2_Witness ==
    /\ last.op = "virial_quantities"
    /\ LastStore # None
    /\ "overdensity" \notin DOMAIN LastStore[1].data
    /\ last.result = Raise("RuntimeError")
    /\ Len(last.fields) = 2
    /\ Len(NewlyDeclared) = 1
    /\ Len(catalog_quantities) = Len(last.old_catalog) + 1
    /\ quantities[last.halo] = last.old_quantities

----------------------------------------------------------------------------
(* The whole program: any callback on any halo, in any order *)

ProfileStep ==
    \E h \in Halos, weight_field \in {None, Some("cell_mass")},
       accumulation \in BOOLEAN,
       y_fields \in {<<"overdensity">>, <<"temperature">>,
                     <<"overdensity", "temperature">>} :
       \E eng \in Engine({y_fields[i] : i \in 1..Len(y_fields)}, {1, 2, 4}, {1, 2}) :
        /\ prof_log[h]["profiles"].n < MaxProfiles
        /\ Profile(h, "radius", y_fields, weight_field, accumulation,
                   "profiles", eng)

VirialStep ==
    \E h \in Halos,
       fields \in {<< <<"temperature", "K">> >>,
                   << <<"temperature", "K">>, <<"pressure", "K">> >>},
       critical_overdensity \in Thresholds :
        /\ Cardinality(requested) < MaxVirial
        /\ VirialQuantities(h, fields, critical_overdensity, "profiles")

Next ==
    \/ AddCallbackStep
    \/ InvokeRegisteredStep
    \/ CallCallbackStep
    \/ HaloSphereStep
    \/ ProfileStep
    \/ VirialStep

Spec == Init /\ [][Next]_vars

====
